---- MODULE Spec2Model ----
(***************************************************************************)
(* Model of src/app.py: the upload pipeline of GeneSys AI.                 *)
(*   determine_file_type -> process_fasta / process_csv / process_pdb      *)
(*   -> cli.upload_s3, and answer_question -> backend.                     *)
(* Text is a sequence of one-character strings, bytes are a sequence of    *)
(* integers 0..255.  A Python call ends either by returning or by raising: *)
(* every modelled function yields a record whose field exc is "" for a     *)
(* return and the exception's class name for a raise.                      *)
(***************************************************************************)
EXTENDS Integers, Sequences, FiniteSets, TLC

VARIABLES now, drained, store, stats, last

vars == <<now, drained, store, stats, last>>

\* ------------------------------------------------------------------ bounds
\* At most MaxCalls handler calls are followed.
MaxCalls == 2

\* ------------------------------------------------------------------ text
UpperCase == <<"A","B","C","D","E","F","G","H","I","J","K","L","M",
               "N","O","P","Q","R","S","T","U","V","W","X","Y","Z">>
LowerCase == <<"a","b","c","d","e","f","g","h","i","j","k","l","m",
               "n","o","p","q","r","s","t","u","v","w","x","y","z">>

\* str.lower() on one character
lower_char(c) ==
    IF \E i \in 1..Len(UpperCase) : UpperCase[i] = c
    THEN LowerCase[CHOOSE i \in 1..Len(UpperCase) : UpperCase[i] = c]
    ELSE c

upper_char(c) ==
    IF \E i \in 1..Len(LowerCase) : LowerCase[i] = c
    THEN UpperCase[CHOOSE i \in 1..Len(LowerCase) : LowerCase[i] = c]
    ELSE c

\* str.lower()
lower(s) == [i \in 1..Len(s) |-> lower_char(s[i])]

\* s.split(sep): the pieces between the separators, in order
RECURSIVE split(_, _)
split(s, sep) ==
    IF \A i \in 1..Len(s) : s[i] # sep
    THEN <<s>>
    ELSE LET k == CHOOSE i \in 1..Len(s) :
                      s[i] = sep /\ \A j \in 1..(i - 1) : s[j] # sep
         IN  <<SubSeq(s, 1, k - 1)>> \o split(SubSeq(s, k + 1, Len(s)), sep)

\* [-1] of a Python list
last_item(l) == l[Len(l)]

Digits == <<"0","1","2","3","4","5","6","7","8","9">>

\* str(n) for an integer n >= 0
RECURSIVE str_int(_)
str_int(n) ==
    IF n < 10 THEN <<Digits[n + 1]>>
    ELSE str_int(n \div 10) \o <<Digits[(n % 10) + 1]>>

is_digit(c) == \E i \in 1..10 : Digits[i] = c

digit_value(c) == (CHOOSE i \in 1..10 : Digits[i] = c) - 1

\* int(s) for a non-empty string of digits
RECURSIVE int_str(_)
int_str(s) ==
    IF Len(s) = 1 THEN digit_value(s[1])
    ELSE 10 * int_str(SubSeq(s, 1, Len(s) - 1)) + digit_value(s[Len(s)])

\* The characters of the 7-bit codes the uploads use.
CodePoint ==
    (10 :> "\n") @@ (44 :> ",") @@ (45 :> "-") @@ (48 :> "0") @@ (49 :> "1")
    @@ (50 :> "2") @@ (51 :> "3") @@ (52 :> "4") @@ (55 :> "7") @@ (62 :> ">")
    @@ (65 :> "A") @@ (67 :> "C") @@ (71 :> "G") @@ (84 :> "T")
    @@ (97 :> "a") @@ (98 :> "b")

\* bytes.decode('utf-8'): a byte above 0x7F that starts no valid sequence
\* (the uploads use 0xFF, valid nowhere in UTF-8) raises UnicodeDecodeError.
decode(bytes) ==
    IF \E i \in 1..Len(bytes) : bytes[i] > 127
    THEN [exc |-> "UnicodeDecodeError", text |-> <<>>]
    ELSE [exc |-> "", text |-> [i \in 1..Len(bytes) |-> CodePoint[bytes[i]]]]

\* ------------------------------------------------------------------ uploads
\* An upload as the handlers see it.  absent: the argument is None (no file
\* selected).  hasName / hasRead: the object has a name / read attribute.
\* binary: read() returns bytes (else str).  data: the content's code units.
Upload(absent, hasName, name, hasRead, binary, data) ==
    [absent |-> absent, hasName |-> hasName, name |-> name,
     hasRead |-> hasRead, binary |-> binary, data |-> data]

NoFile == Upload(TRUE, FALSE, <<>>, FALSE, FALSE, <<>>)

\* ------------------------------------------------------------------ classifier
\* determine_file_type(file): kind is "FASTA", "CSV", "PDB" or "None" (Python's
\* None); file.name on an object without a name raises AttributeError.
determine_file_type(file) ==
    IF ~file.absent
    THEN IF ~file.hasName
         THEN [exc |-> "AttributeError", kind |-> "None"]
         ELSE LET file_extension == lower(last_item(split(file.name, ".")))
              IN  IF file_extension = <<"f","a","s","t","a">>
                  THEN [exc |-> "", kind |-> "FASTA"]
                  ELSE IF file_extension = <<"c","s","v">>
                  THEN [exc |-> "", kind |-> "CSV"]
                  ELSE IF file_extension = <<"p","d","b">>
                  THEN [exc |-> "", kind |-> "PDB"]
                  ELSE [exc |-> "", kind |-> "None"]
    ELSE [exc |-> "", kind |-> "None"]

\* ------------------------------------------------------------------ values
NoTable == [columns |-> <<>>, rows |-> <<>>]

\* A Python value a handler returns or passes on.  tag "None" is None, "key" a
\* generated filename, "text" decoded content, "df" a DataFrame, "str" a
\* message or a backend's answer.
Value(tag, key, text, df, str) ==
    [tag |-> tag, key |-> key, text |-> text, df |-> df, str |-> str]

None == Value("None", <<>>, <<>>, NoTable, "")
KeyValue(k) == Value("key", k, <<>>, NoTable, "")
TextValue(x) == Value("text", <<>>, x, NoTable, "")
TableValue(df) == Value("df", <<>>, <<>>, df, "")
StrValue(s) == Value("str", <<>>, <<>>, NoTable, s)

\* text of a str whose code units are data
chars(data) == [i \in 1..Len(data) |-> CodePoint[data[i]]]

\* ------------------------------------------------------------------ tables
IntCell(n) == [t |-> "int", n |-> n, s |-> <<>>]
StrCell(s) == [t |-> "str", n |-> 0, s |-> s]

RECURSIVE join(_, _)
\* sep.join(parts)
join(parts, sep) ==
    IF Len(parts) = 0 THEN <<>>
    ELSE IF Len(parts) = 1 THEN parts[1]
    ELSE parts[1] \o <<sep>> \o join(Tail(parts), sep)

RECURSIVE concat(_)
concat(parts) == IF Len(parts) = 0 THEN <<>> ELSE parts[1] \o concat(Tail(parts))

non_blank(line) == line # <<>>

Unnamed == <<"U","n","n","a","m","e","d",":"," ">>

\* pd.read_csv on text whose records all have as many fields as the header:
\* blank lines are skipped, the first line names the columns (an empty name
\* becomes "Unnamed: <position>"), a column whose cells are all digit strings
\* is read as integers, any other column is kept as strings.  No line at all
\* raises EmptyDataError.
read_csv(text) ==
    LET lines == SelectSeq(split(text, "\n"), non_blank)
    IN  IF Len(lines) = 0 THEN [exc |-> "EmptyDataError", df |-> NoTable]
        ELSE
        LET header == split(lines[1], ",")
            width == Len(header)
            raw == [r \in 1..(Len(lines) - 1) |-> split(lines[r + 1], ",")]
            is_int(c) == /\ Len(raw) > 0
                         /\ \A r \in 1..Len(raw) :
                               /\ Len(raw[r][c]) > 0
                               /\ \A k \in 1..Len(raw[r][c]) : is_digit(raw[r][c][k])
        IN  [exc |-> "",
             df |-> [columns |-> [c \in 1..width |->
                                     IF header[c] = <<>>
                                     THEN Unnamed \o str_int(c - 1)
                                     ELSE header[c]],
                     rows |-> [r \in 1..Len(raw) |-> [c \in 1..width |->
                                     IF is_int(c) THEN IntCell(int_str(raw[r][c]))
                                     ELSE StrCell(raw[r][c])]]]]

format_cell(cell) == IF cell.t = "int" THEN str_int(cell.n) ELSE cell.s

\* df.to_csv(buffer) with its defaults (header=True, index=True): the header
\* line is the empty index label followed by the column names, every record
\* is led by its row number from 0
to_csv(df) ==
    LET header == join(<<<<>>>> \o df.columns, ",") \o <<"\n">>
        record(r) == join(<<str_int(r - 1)>>
                          \o [c \in 1..Len(df.rows[r]) |-> format_cell(df.rows[r][c])],
                          ",") \o <<"\n">>
    IN  header \o concat([r \in 1..Len(df.rows) |-> record(r)])

\* ------------------------------------------------------------------ storage
\* The outside world of one call: io = the read raises, s3 = how the storage
\* call ends ("ok" or the class of what it raises), be = the backend raises.
\* A storage outcome is drawn only where the read did not raise, since no
\* strategy reaches the storage call after a failed read.
Envs ==
    {env \in [io : BOOLEAN, s3 : {"ok", "IOError", "Exception"}, be : BOOLEAN] :
        env.io => env.s3 = "ok"}

\* the outside world of a call that reaches no backend
EnvsNoBackend == {env \in Envs : ~env.be}

\* cli.upload_s3(content, username, filename, label): succeeds or raises
upload_s3(content, username, filename, label, s3) ==
    [exc |-> IF s3 = "ok" THEN "" ELSE s3,
     put |-> [content |-> content, username |-> username, key |-> filename,
              label |-> label, ok |-> (s3 = "ok")]]

\* the stored objects after an accepted write: the object under the same
\* namespace and key is replaced
store_put(objects, put) ==
    {o \in objects : ~(o.username = put.username /\ o.key = put.key)}
    \cup {[username |-> put.username, key |-> put.key, content |-> put.content]}

RECURSIVE store_all(_, _)
store_all(objects, puts) ==
    IF Len(puts) = 0 THEN objects
    ELSE store_all(IF puts[1].ok THEN store_put(objects, puts[1]) ELSE objects,
                   Tail(puts))

\* a read that starts again from the beginning of the content
mut_read_rewinds(file, isDrained, io) ==
    IF io THEN [exc |-> "IOError", data |-> <<>>, consumed |-> FALSE]
    ELSE [exc |-> "", data |-> file.data, consumed |-> TRUE]

\* file.read() on a stream: everything from the position to the end, leaving
\* the position at the end; a failing read raises IOError
read(file, isDrained, io) ==
    IF io THEN [exc |-> "IOError", data |-> <<>>, consumed |-> FALSE]
    ELSE [exc |-> "", data |-> IF isDrained THEN <<>> ELSE file.data,
          consumed |-> TRUE]

\* f"{str(int(time()))}-{name}"
stamped(t, name) == str_int(t) \o <<"-">> \o name

DefaultFastaName ==
    <<"u","p","l","o","a","d","e","d","_","f","a","s","t","a",".","f","a","s","t","a">>

\* What a strategy did: exc = what it raised ("" = returned), fault = what was
\* raised inside it, result/msg = the pair returned, consumed = the stream was
\* read, readData = what the read gave, puts = the storage calls made.
Norm(exc, fault, result, msg, consumed, readData, puts) ==
    [exc |-> exc, fault |-> fault, result |-> result, msg |-> msg,
     consumed |-> consumed, readData |-> readData, puts |-> puts]

NoNorm == Norm("", "", None, "", FALSE, <<>>, <<>>)

\* ------------------------------------------------------------------ strategies
FastaOk == "FASTA file processed successfully"
CsvOk == "CSV file processed successfully"
PdbOk == "PDB file processed successfully"
FastaIOError == "Error processing FASTA file: "
FastaDecodeError == "Error decoding FASTA file: "
FastaUnexpected == "Unexpected error processing FASTA file: "

\* The try block of process_fasta: exc is what the block raises.
fasta_body(file, username, t, isDrained, env) ==
    LET filename == IF file.hasName THEN stamped(t, file.name)
                    ELSE stamped(t, DefaultFastaName)
        rd == read(file, isDrained, env.io)
        dec == IF file.binary THEN decode(rd.data)
               ELSE [exc |-> "", text |-> chars(rd.data)]
        fasta_content == IF file.hasRead THEN dec.text ELSE chars(file.data)
        up == upload_s3(fasta_content, username, filename, "FASTA", env.s3)
    IN  IF file.hasRead /\ rd.exc # ""
        THEN Norm(rd.exc, rd.exc, None, "", FALSE, <<>>, <<>>)
        ELSE IF file.hasRead /\ dec.exc # ""
        THEN Norm(dec.exc, dec.exc, None, "", TRUE, rd.data, <<>>)
        ELSE IF up.exc # ""
        THEN Norm(up.exc, up.exc, None, "", file.hasRead,
                  IF file.hasRead THEN rd.data ELSE <<>>, <<up.put>>)
        ELSE Norm("", "", KeyValue(filename), FastaOk, file.hasRead,
                  IF file.hasRead THEN rd.data ELSE <<>>, <<up.put>>)

\* process_fasta without its last handler
mut_process_fasta_no_catch_all(file, username, t, isDrained, env) ==
    LET b == fasta_body(file, username, t, isDrained, env)
    IN  IF b.exc = "" THEN b
        ELSE IF b.exc = "IOError"
        THEN [b EXCEPT !.exc = "", !.result = None, !.msg = FastaIOError]
        ELSE IF b.exc = "UnicodeDecodeError"
        THEN [b EXCEPT !.exc = "", !.result = None, !.msg = FastaDecodeError]
        ELSE b

\* process_fasta that stores nothing
mut_process_fasta_no_upload(file, username, t, isDrained, env) ==
    LET b == fasta_body(file, username, t, isDrained, [env EXCEPT !.s3 = "ok"])
    IN  IF b.exc = "" THEN [b EXCEPT !.puts = <<>>]
        ELSE IF b.exc = "IOError"
        THEN [b EXCEPT !.exc = "", !.result = None, !.msg = FastaIOError]
        ELSE IF b.exc = "UnicodeDecodeError"
        THEN [b EXCEPT !.exc = "", !.result = None, !.msg = FastaDecodeError]
        ELSE [b EXCEPT !.exc = "", !.result = None, !.msg = FastaUnexpected]

\* process_fasta(file, username): the try block and its three handlers
process_fasta(file, username, t, isDrained, env) ==
    LET b == fasta_body(file, username, t, isDrained, env)
    IN  IF b.exc = "" THEN b
        ELSE IF b.exc = "IOError"
        THEN [b EXCEPT !.exc = "", !.result = None, !.msg = FastaIOError]
        ELSE IF b.exc = "UnicodeDecodeError"
        THEN [b EXCEPT !.exc = "", !.result = None, !.msg = FastaDecodeError]
        ELSE [b EXCEPT !.exc = "", !.result = None, !.msg = FastaUnexpected]

Raised(e, consumed, readData, puts) ==
    Norm(e, e, None, "", consumed, readData, puts)

\* process_csv(file, username)
process_csv(file, username, t, isDrained, env) ==
    LET rd == read(file, isDrained, env.io)
        dec == IF file.binary THEN decode(rd.data)
               ELSE [exc |-> "", text |-> chars(rd.data)]
        parsed == read_csv(dec.text)
        df == parsed.df
        csv_filename == stamped(t, file.name)
        up == upload_s3(to_csv(df), username, csv_filename, "csv", env.s3)
    IN  IF ~file.hasRead THEN Raised("ValueError", FALSE, <<>>, <<>>)
        ELSE IF rd.exc # "" THEN Raised(rd.exc, FALSE, <<>>, <<>>)
        ELSE IF dec.exc # "" THEN Raised(dec.exc, TRUE, rd.data, <<>>)
        ELSE IF parsed.exc # "" THEN Raised(parsed.exc, TRUE, rd.data, <<>>)
        ELSE IF ~file.hasName THEN Raised("AttributeError", TRUE, rd.data, <<>>)
        ELSE IF up.exc # "" THEN Raised(up.exc, TRUE, rd.data, <<up.put>>)
        ELSE Norm("", "", TableValue(df), CsvOk, TRUE, rd.data, <<up.put>>)

\* process_pdb that reports a storage failure instead of raising it
mut_process_pdb_catches(file, username, t, isDrained, env) ==
    LET rd == read(file, isDrained, env.io)
        dec == decode(rd.data)
        pdb_content == dec.text
        pdb_filename == stamped(t, file.name)
        up == upload_s3(pdb_content, username, pdb_filename, "pdb", env.s3)
    IN  IF ~file.hasRead THEN Raised("AttributeError", FALSE, <<>>, <<>>)
        ELSE IF rd.exc # "" THEN Raised(rd.exc, FALSE, <<>>, <<>>)
        ELSE IF ~file.binary THEN Raised("AttributeError", TRUE, rd.data, <<>>)
        ELSE IF dec.exc # "" THEN Raised(dec.exc, TRUE, rd.data, <<>>)
        ELSE IF ~file.hasName THEN Raised("AttributeError", TRUE, rd.data, <<>>)
        ELSE IF up.exc # ""
        THEN Norm("", up.exc, None, "Error processing PDB file: ", TRUE,
                  rd.data, <<up.put>>)
        ELSE Norm("", "", TextValue(pdb_content), PdbOk, TRUE, rd.data, <<up.put>>)

\* process_pdb(file, username)
process_pdb(file, username, t, isDrained, env) ==
    LET rd == read(file, isDrained, env.io)
        dec == decode(rd.data)
        pdb_content == dec.text
        pdb_filename == stamped(t, file.name)
        up == upload_s3(pdb_content, username, pdb_filename, "pdb", env.s3)
    IN  IF ~file.hasRead THEN Raised("AttributeError", FALSE, <<>>, <<>>)
        ELSE IF rd.exc # "" THEN Raised(rd.exc, FALSE, <<>>, <<>>)
        ELSE IF ~file.binary THEN Raised("AttributeError", TRUE, rd.data, <<>>)
        ELSE IF dec.exc # "" THEN Raised(dec.exc, TRUE, rd.data, <<>>)
        ELSE IF ~file.hasName THEN Raised("AttributeError", TRUE, rd.data, <<>>)
        ELSE IF up.exc # "" THEN Raised(up.exc, TRUE, rd.data, <<up.put>>)
        ELSE Norm("", "", TextValue(pdb_content), PdbOk, TRUE, rd.data, <<up.put>>)

\* ------------------------------------------------------------------ backends
UnsupportedFile == "Unsupported file type"
UnsupportedQuestion == "Unsupported file type for question answering"

\* run_conversation, SmartDataframe(df, config).chat, render_protein_file:
\* each is handed its arguments and returns its answer or raises
backend(name, question, arg, be) ==
    [exc |-> IF be THEN "BackendError" ELSE "",
     answer |-> StrValue(name),
     call |-> [name |-> name, question |-> question, arg |-> arg]]

\* What one call of a handler did: kind = the classification, exc = what the
\* call raised ("" = it returned), result/msg = what it returned, strategies =
\* the strategies it invoked, norm = what the strategy did, backends = the
\* backend calls it made.
Done(kind, exc, result, msg, strategies, norm, backends) ==
    [kind |-> kind, exc |-> exc, result |-> result, msg |-> msg,
     strategies |-> strategies, norm |-> norm, backends |-> backends]

\* ------------------------------------------------------------------ orchestrator
\* process_file that falls back to the structure strategy when the sequence
\* strategy reports a failure
mut_process_file_fallback(file, username, t, isDrained, env) ==
    LET c == determine_file_type(file)
        file_type == c.kind
        n == IF file_type = "FASTA" THEN process_fasta(file, username, t, isDrained, env)
             ELSE IF file_type = "CSV" THEN process_csv(file, username, t, isDrained, env)
             ELSE process_pdb(file, username, t, isDrained, env)
        m == process_pdb(file, username, t, isDrained \/ n.consumed, env)
    IN  IF c.exc # "" THEN Done("None", c.exc, None, "", <<>>, NoNorm, <<>>)
        ELSE IF file_type = "FASTA" /\ n.result = None
        THEN Done(file_type, m.exc, m.result, m.msg,
                  <<"process_fasta", "process_pdb">>,
                  [m EXCEPT !.puts = n.puts \o m.puts], <<>>)
        ELSE IF file_type = "FASTA"
        THEN Done(file_type, n.exc, n.result, n.msg, <<"process_fasta">>, n, <<>>)
        ELSE IF file_type = "CSV"
        THEN Done(file_type, n.exc, n.result, n.msg, <<"process_csv">>, n, <<>>)
        ELSE IF file_type = "PDB"
        THEN Done(file_type, n.exc, n.result, n.msg, <<"process_pdb">>, n, <<>>)
        ELSE Done(file_type, "", None, UnsupportedFile, <<>>, NoNorm, <<>>)

\* process_file(file, username)
process_file(file, username, t, isDrained, env) ==
    LET c == determine_file_type(file)
        file_type == c.kind
        n == IF file_type = "FASTA" THEN process_fasta(file, username, t, isDrained, env)
             ELSE IF file_type = "CSV" THEN process_csv(file, username, t, isDrained, env)
             ELSE process_pdb(file, username, t, isDrained, env)
    IN  IF c.exc # "" THEN Done("None", c.exc, None, "", <<>>, NoNorm, <<>>)
        ELSE IF file_type = "FASTA"
        THEN Done(file_type, n.exc, n.result, n.msg, <<"process_fasta">>, n, <<>>)
        ELSE IF file_type = "CSV"
        THEN Done(file_type, n.exc, n.result, n.msg, <<"process_csv">>, n, <<>>)
        ELSE IF file_type = "PDB"
        THEN Done(file_type, n.exc, n.result, n.msg, <<"process_pdb">>, n, <<>>)
        ELSE Done(file_type, "", None, UnsupportedFile, <<>>, NoNorm, <<>>)

\* ------------------------------------------------------------------ router
\* What a strategy's result leads to in answer_question: the call raises what
\* the strategy raised, else what the backend raised, else returns the answer.
Routed(file_type, strategy, n, b) ==
    IF n.exc # ""
    THEN Done(file_type, n.exc, None, "", <<strategy>>, n, <<>>)
    ELSE IF b.exc # ""
    THEN Done(file_type, b.exc, None, "", <<strategy>>, n, <<b.call>>)
    ELSE Done(file_type, "", b.answer, "", <<strategy>>, n, <<b.call>>)

\* answer_question that asks the conversational backend about structures too
mut_answer_question_pdb_chat(file, question, username, t, isDrained, env) ==
    LET c == determine_file_type(file)
        file_type == c.kind
        nf == process_fasta(file, username, t, isDrained, env)
        nc == process_csv(file, username, t, isDrained, env)
        np == process_pdb(file, username, t, isDrained, env)
    IN  IF c.exc # "" THEN Done("None", c.exc, None, "", <<>>, NoNorm, <<>>)
        ELSE IF file_type = "FASTA"
        THEN Routed(file_type, "process_fasta", nf,
                    backend("run_conversation", question, nf.result, env.be))
        ELSE IF file_type = "CSV"
        THEN Routed(file_type, "process_csv", nc,
                    backend("SmartDataframe.chat", question, nc.result, env.be))
        ELSE IF file_type = "PDB"
        THEN Routed(file_type, "process_pdb", np,
                    backend("run_conversation", question, np.result, env.be))
        ELSE Done(file_type, "", StrValue(UnsupportedQuestion), "", <<>>, NoNorm, <<>>)

\* answer_question(file, question, username)
answer_question(file, question, username, t, isDrained, env) ==
    LET c == determine_file_type(file)
        file_type == c.kind
        nf == process_fasta(file, username, t, isDrained, env)
        nc == process_csv(file, username, t, isDrained, env)
        np == process_pdb(file, username, t, isDrained, env)
    IN  IF c.exc # "" THEN Done("None", c.exc, None, "", <<>>, NoNorm, <<>>)
        ELSE IF file_type = "FASTA"
        THEN Routed(file_type, "process_fasta", nf,
                    backend("run_conversation", question, nf.result, env.be))
        ELSE IF file_type = "CSV"
        THEN Routed(file_type, "process_csv", nc,
                    backend("SmartDataframe.chat", question, nc.result, env.be))
        ELSE IF file_type = "PDB"
        THEN Routed(file_type, "process_pdb", np,
                    backend("render_protein_file", "", np.result, env.be))
        ELSE Done(file_type, "", StrValue(UnsupportedQuestion), "", <<>>, NoNorm, <<>>)

\* update_file_type(file): the classification shown to the user
update_file_type(file) ==
    LET c == determine_file_type(file)
    IN  Done(c.kind, c.exc, None, "", <<>>, NoNorm, <<>>)

\* ------------------------------------------------------------------ inputs
Named(name, binary, data) == Upload(FALSE, TRUE, name, TRUE, binary, data)

SampleFasta == Named(<<"s",".","F","A","S","T","A">>, TRUE, <<62, 65, 10, 67>>)
BadFasta == Named(<<"b",".","f","a","s","t","a">>, TRUE, <<62, 255>>)
TextFasta == Named(<<"t",".","f","a","s","t","a">>, FALSE, <<62, 71>>)
DataCsv == Named(<<"d",".","c","s","v">>, TRUE,
                 <<97, 44, 98, 10, 49, 44, 50, 10, 51, 44, 52>>)
StructurePdb == Named(<<"p",".","p","d","b">>, TRUE, <<65, 84, 10>>)
BadPdb == Named(<<"q",".","P","D","B">>, TRUE, <<255>>)
NotesTxt == Named(<<"n",".","t","x","t">>, TRUE, <<97>>)
Nameless == Upload(FALSE, FALSE, <<>>, TRUE, TRUE, <<62, 84>>)
RawText == Upload(FALSE, FALSE, <<>>, FALSE, FALSE, <<62, 71>>)

\* the uploads the pipeline is run on
PipelineUploads ==
    {SampleFasta, BadFasta, TextFasta, DataCsv, StructurePdb, BadPdb, NotesTxt,
     Nameless, RawText, NoFile}

Usernames == {"ada"}
Questions == {"what is it", "how long"}

\* every letter-case of a word
CaseVariants(w) ==
    {[i \in 1..Len(w) |-> IF b[i] THEN upper_char(w[i]) ELSE w[i]] :
        b \in [1..Len(w) -> BOOLEAN]}

Suffixes ==
    CaseVariants(<<"f","a","s","t","a">>) \cup CaseVariants(<<"c","s","v">>)
    \cup CaseVariants(<<"p","d","b">>)
    \cup {<<>>, <<"t","x","t">>, <<"f","a">>, <<"f","a","s","t","a","x">>,
          <<"c","s","v","s">>, <<"p","d">>, <<"g","z">>}

Stems == {<<>>, <<"x">>, <<"x",".","c","s","v">>, <<"p","d","b","."," ">>}

\* the declared names classification is tried on: with and without a dot
ClassifyNames ==
    {stem \o <<".">> \o suffix : stem \in Stems, suffix \in Suffixes}
    \cup Suffixes

ClassifyUploads ==
    {Named(n, TRUE, <<>>) : n \in ClassifyNames} \cup {Nameless, RawText, NoFile}

\* ------------------------------------------------------------------ state
\* now: the clock, in seconds.  drained: the uploads whose stream has been
\* read to its end.  store: the objects the storage holds.  stats: the calls
\* made so far.  last: the latest call and what it did.
NoCall ==
    [op |-> "none", file |-> NoFile, question |-> "", username |-> "",
     t |-> 0, wasDrained |-> FALSE,
     done |-> Done("None", "", None, "", <<>>, NoNorm, <<>>)]

Init ==
    /\ now = 0
    /\ drained = {}
    /\ store = {}
    /\ stats = [calls |-> 0, writes |-> 0, attempts |-> 0, normOK |-> 0,
                p |-> 0, q |-> 0, log |-> <<>>]
    /\ last = NoCall

SuccessMessages == {FastaOk, CsvOk, PdbOk}

\* the strategy of the call returned its success pair
Normalized(d) == d.norm.exc = "" /\ d.norm.msg \in SuccessMessages

\* the call returned and its normalization succeeded
Successful(d) == d.exc = "" /\ Normalized(d)

accepted(put) == put.ok

\* The effects of a finished call on the state.
Finish(op, file, question, username, d) ==
    /\ stats.calls < MaxCalls
    /\ drained' = IF d.norm.consumed THEN drained \cup {file} ELSE drained
    /\ store' = store_all(store, d.norm.puts)
    /\ stats' = [calls |-> stats.calls + 1,
                 writes |-> stats.writes + Len(SelectSeq(d.norm.puts, accepted)),
                 attempts |-> stats.attempts + Len(d.norm.puts),
                 normOK |-> stats.normOK + (IF Normalized(d) THEN 1 ELSE 0),
                 p |-> stats.p + (IF op = "process_file" /\ Successful(d) THEN 1 ELSE 0),
                 q |-> stats.q + (IF op = "answer_question" /\ Successful(d) THEN 1 ELSE 0),
                 log |-> stats.log \o SelectSeq(d.norm.puts, accepted)]
    /\ last' = [op |-> op, file |-> file, question |-> question,
                username |-> username, t |-> now,
                wasDrained |-> (file \in drained), done |-> d]
    /\ UNCHANGED now

\* ------------------------------------------------------------------ actions
\* A second passes.  Keys depend on the clock only through whether two calls
\* fall in the same second, so the clock is not run ahead of the calls made.
Tick ==
    /\ now < stats.calls
    /\ stats.calls < MaxCalls
    /\ now' = now + 1
    /\ UNCHANGED <<drained, store, stats, last>>

\* file_input.change
UpdateFileType(file) ==
    Finish("update_file_type", file, "", "", update_file_type(file))

\* process_file is called
ProcessFile(file, username) ==
    \E env \in EnvsNoBackend :
        Finish("process_file", file, "", username,
               process_file(file, username, now, file \in drained, env))

\* answer_question is called
AnswerQuestion(file, question, username) ==
    \E env \in Envs :
        Finish("answer_question", file, question, username,
               answer_question(file, question, username, now, file \in drained, env))

\* process_fasta is called on its own
ProcessFasta(file, username) ==
    \E env \in EnvsNoBackend :
        LET n == process_fasta(file, username, now, file \in drained, env)
        IN  Finish("process_fasta", file, "", username,
                   Done("FASTA", n.exc, n.result, n.msg, <<"process_fasta">>, n, <<>>))

Next ==
    \/ Tick
    \/ \E file \in PipelineUploads, username \in Usernames :
          ProcessFile(file, username)
    \/ \E file \in PipelineUploads, question \in Questions, username \in Usernames :
          AnswerQuestion(file, question, username)
    \/ \E file \in PipelineUploads \ {NoFile}, username \in Usernames :
          ProcessFasta(file, username)

Spec == Init /\ [][Next]_vars

\* Classification alone, over every declared name.
NextClassify == \E file \in ClassifyUploads : UpdateFileType(file)

SpecClassify == Init /\ [][NextClassify]_vars

\* ------------------------------------------------------------------ properties
\* The uploads by the kind their declared name states.
SequenceUploads == {SampleFasta, BadFasta, TextFasta}
TabularUploads == {DataCsv}
StructureUploads == {StructurePdb, BadPdb}
UnsupportedUploads == {NotesTxt, NoFile}

\* the part of a name after its final '.', the whole name when it has none
SuffixOf(name) ==
    LET k == CHOOSE i \in 0..Len(name) :
                 /\ i = 0 \/ name[i] = "."
                 /\ \A j \in (i + 1)..Len(name) : name[j] # "."
                 /\ i = 0 => \A j \in 1..Len(name) : name[j] # "."
    IN  SubSeq(name, k + 1, Len(name))

KindOfSuffix(suffix) ==
    IF suffix = <<"f","a","s","t","a">> THEN "FASTA"
    ELSE IF suffix = <<"c","s","v">> THEN "CSV"
    ELSE IF suffix = <<"p","d","b">> THEN "PDB"
    ELSE "None"

\* the kind the declared name states: none for an absent or nameless upload
StatedKind(file) ==
    IF file.absent \/ ~file.hasName THEN "None"
    ELSE KindOfSuffix([i \in 1..Len(SuffixOf(file.name)) |->
                          lower_char(SuffixOf(file.name)[i])])

Rejected(puts) == \E i \in 1..Len(puts) : ~puts[i].ok

\* C1: every classification returns the kind the lower-cased suffix of the
\* declared name states, and the no-kind result for any other suffix and for
\* an upload with no name.
ClassifiesBySuffix ==
    last.op = "update_file_type" =>
        /\ last.done.exc = ""
        /\ last.done.kind = StatedKind(last.file)

\* C2: classification never ends in an error, so no process_file or
\* answer_question call fails before it has chosen its branch.
ClassificationIsTotal ==
    last.op \in {"process_file", "answer_question"} =>
        ~(last.done.exc # "" /\ last.done.strategies = <<>>)

FastaErrorMessages == {FastaIOError, FastaDecodeError, FastaUnexpected}

\* C3: process_fasta always returns a pair: (None, an error message) whenever
\* the read, the decoding or anything else in it failed, and (the generated
\* filename, "FASTA file processed successfully") otherwise.
FastaNeverRaises ==
    last.done.strategies = <<"process_fasta">> =>
        LET n == last.done.norm
        IN  /\ n.exc = ""
            /\ n.fault # "" => n.result = None /\ n.msg \in FastaErrorMessages
            /\ n.fault = "" => n.result.tag = "key" /\ n.msg = FastaOk
            /\ Rejected(n.puts) => n.fault # ""
            /\ (last.file = BadFasta /\ n.consumed /\ ~last.wasDrained)
                   => n.result = None /\ n.msg = FastaDecodeError
            /\ n.result = None <=> n.msg \in FastaErrorMessages

FastaNeverRaisesWitness ==
    /\ last.op = "process_file"
    /\ last.file = BadFasta
    /\ last.done.norm.fault = "UnicodeDecodeError"
    /\ last.done.exc = ""
    /\ last.done.result = None
    /\ last.done.msg = FastaDecodeError

\* C4 as stated: a failed storage call makes the strategy, and so the call of
\* process_file or answer_question around it, end in an error.
StorageFailurePropagates ==
    Rejected(last.done.norm.puts) =>
        last.done.norm.exc # "" /\ last.done.exc # ""

\* C4 amended: a failed storage call ends process_csv and process_pdb, and the
\* call around them, in that error; process_fasta catches it and returns
\* (None, an error message).
StorageFailureByStrategy ==
    Rejected(last.done.norm.puts) =>
        LET n == last.done.norm
        IN  IF last.done.strategies = <<"process_fasta">>
            THEN /\ n.exc = ""
                 /\ n.result = None
                 /\ n.msg \in {FastaIOError, FastaUnexpected}
                 /\ last.op = "process_file" =>
                        last.done.exc = "" /\ last.done.result = None
            ELSE /\ n.exc \in {"IOError", "Exception"}
                 /\ last.done.exc = n.exc
                 /\ last.done.backends = <<>>

StorageFailureByStrategyWitness ==
    /\ last.op = "answer_question"
    /\ last.file = StructurePdb
    /\ Rejected(last.done.norm.puts)
    /\ last.done.exc = "Exception"

BackendOf(file) ==
    IF file \in SequenceUploads THEN {"run_conversation"}
    ELSE IF file \in TabularUploads THEN {"SmartDataframe.chat"}
    ELSE IF file \in StructureUploads THEN {"render_protein_file"}
    ELSE {}

\* C5: answer_question reaches only the backend of the upload's kind, whatever
\* the question; for an unsupported or absent upload it reaches no backend,
\* writes nothing and returns the fixed message.
AnswerRoutesByKind ==
    last.op = "answer_question" =>
        LET d == last.done
        IN  /\ Len(d.backends) <= 1
            /\ \A i \in 1..Len(d.backends) : d.backends[i].name \in BackendOf(last.file)
            /\ last.file \in UnsupportedUploads =>
                   /\ d.backends = <<>>
                   /\ d.strategies = <<>>
                   /\ d.norm.puts = <<>>
                   /\ d.exc = ""
                   /\ d.result = StrValue(UnsupportedQuestion)

AnswerRoutesByKindWitness ==
    /\ last.op = "answer_question"
    /\ last.file = StructurePdb
    /\ Len(last.done.backends) = 1
    /\ last.done.backends[1].name = "render_protein_file"
    /\ last.done.exc = ""

StrategyOf(file) ==
    IF file \in SequenceUploads THEN <<"process_fasta">>
    ELSE IF file \in TabularUploads THEN <<"process_csv">>
    ELSE IF file \in StructureUploads THEN <<"process_pdb">>
    ELSE <<>>

\* C6: process_file invokes the one strategy of the upload's kind and no
\* other, also when that strategy fails; for an unsupported or absent upload
\* it invokes none, writes nothing and returns (None, "Unsupported file type").
ProcessDispatchesOnce ==
    last.op = "process_file" =>
        LET d == last.done
        IN  /\ Len(d.strategies) <= 1
            /\ Len(d.norm.puts) <= 1
            /\ last.file \in SequenceUploads \cup TabularUploads \cup StructureUploads
                   => d.strategies = StrategyOf(last.file)
            /\ last.file \in UnsupportedUploads =>
                   /\ d.strategies = <<>>
                   /\ d.norm.puts = <<>>
                   /\ d.exc = ""
                   /\ d.result = None
                   /\ d.msg = UnsupportedFile

ProcessDispatchesOnceWitness ==
    /\ last.op = "process_file"
    /\ last.file = BadFasta
    /\ last.done.result = None
    /\ last.done.msg = FastaDecodeError
    /\ last.done.strategies = <<"process_fasta">>

\* C7: the text process_csv hands to storage parses back to the table that
\* process_csv returned: same columns, same rows.
CsvRoundTrips ==
    (last.done.strategies = <<"process_csv">> /\ Normalized(last.done)) =>
        \A i \in 1..Len(last.done.norm.puts) :
            LET again == read_csv(last.done.norm.puts[i].content)
            IN  /\ again.exc = ""
                /\ again.df.columns = last.done.norm.result.df.columns
                /\ again.df.rows = last.done.norm.result.df.rows

\* C8: a call on an upload whose stream an earlier call has read reads the
\* empty content; for a Sequence or Structure upload what it hands to storage
\* is the empty text, and it reports success when storage accepts it.
DrainedStreamYieldsNothing ==
    (last.wasDrained /\ last.done.norm.consumed) =>
        LET n == last.done.norm
        IN  /\ n.readData = <<>>
            /\ last.file \in SequenceUploads \cup StructureUploads =>
                   /\ \A i \in 1..Len(n.puts) : n.puts[i].content = <<>>
                   /\ ~Rejected(n.puts) =>
                          /\ Len(n.puts) = 1
                          /\ n.msg \in {FastaOk, PdbOk}
                          /\ n.result \in {KeyValue(stamped(last.t, last.file.name)),
                                           TextValue(<<>>)}

DrainedStreamYieldsNothingWitness ==
    /\ last.op = "answer_question"
    /\ last.file = SampleFasta
    /\ last.wasDrained
    /\ Len(last.done.norm.puts) = 1
    /\ last.done.norm.puts[1].ok
    /\ last.done.norm.puts[1].content = <<>>
    /\ last.done.norm.msg = FastaOk

\* the latest write of the log under a namespace and key
LatestWrite(username, key) ==
    LET i == CHOOSE k \in 1..Len(stats.log) :
                 /\ stats.log[k].username = username /\ stats.log[k].key = key
                 /\ \A j \in (k + 1)..Len(stats.log) :
                        ~(stats.log[j].username = username /\ stats.log[j].key = key)
    IN  stats.log[i]

\* C9: a strategy makes at most one storage call and exactly one, accepted,
\* when it succeeds; the accepted writes are as many as the successful
\* normalizations, hence p + q after p successful process_file and q
\* successful answer_question calls; the storage holds, under each key
\* written, the content of the latest write with that key.
StorageWritesCounted ==
    /\ Len(last.done.norm.puts) <= 1
    /\ Normalized(last.done) =>
           Len(last.done.norm.puts) = 1 /\ last.done.norm.puts[1].ok
    /\ stats.attempts <= stats.calls
    /\ stats.writes = stats.normOK
    /\ stats.writes = Len(stats.log)
    /\ stats.calls = stats.p + stats.q => stats.writes = stats.p + stats.q
    /\ \A i \in 1..Len(stats.log) :
           \E o \in store :
               /\ o.username = stats.log[i].username
               /\ o.key = stats.log[i].key
               /\ o.content = LatestWrite(o.username, o.key).content
    /\ \A o \in store : \E i \in 1..Len(stats.log) :
           o.username = stats.log[i].username /\ o.key = stats.log[i].key
    /\ \A o1, o2 \in store :
           (o1.username = o2.username /\ o1.key = o2.key) => o1 = o2

StorageWritesCountedWitness ==
    /\ last.op = "answer_question"
    /\ last.file = SampleFasta
    /\ stats.p = 1
    /\ stats.q = 1
    /\ stats.writes = 2
    /\ stats.log[1].key = stats.log[2].key
    /\ stats.log[1].content # stats.log[2].content
    /\ store = {[username |-> last.username, key |-> stats.log[2].key,
                 content |-> stats.log[2].content]}

\* C10: whenever answer_question invokes the conversational backend, the
\* reference it passes is the key of a write the storage accepted in that call.
BackendGetsStoredKey ==
    last.op = "answer_question" =>
        \A i \in 1..Len(last.done.backends) :
            last.done.backends[i].name = "run_conversation" =>
                /\ last.done.backends[i].arg.tag = "key"
                /\ \E j \in 1..Len(last.done.norm.puts) :
                       /\ last.done.norm.puts[j].ok
                       /\ last.done.norm.puts[j].key = last.done.backends[i].arg.key

====
